---- MODULE Spec2Model ----
(***************************************************************************)
(* rusty-robots: the Room session core (src/game.rs, and the revision of   *)
(* it with passwords in src/game_server/room.rs) and the connection bridge *)
(* of src/game_server.rs, as one state machine.                            *)
(*                                                                         *)
(* One room.  The room sits behind a tokio Mutex (game_server.rs:32): an   *)
(* operation takes the lock, runs its body, and keeps the lock while a     *)
(* Sender::send of its broadcast waits on a full channel.  An action is    *)
(* one run of a task from one suspension point to the next.  The registry  *)
(* of rooms (game_server.rs handle_create) is a map from codes to rooms,   *)
(* of which that room is one.                                              *)
(***************************************************************************)
EXTENDS Integers, Sequences, FiniteSets, TLC

\* ------------------------------------------------------------- bounds
MaxEvents == 6      \* chats are accepted while fewer events were authored
MaxChans == 2       \* successful connects in a run
MaxBridges == 2     \* websocket connections in a run
StallEvents == 14   \* as MaxEvents, in the runs with a client that stopped reading
ApiEvents == 4      \* as MaxEvents, in the runs of a direct caller of the Room API
MaxCreates == 3     \* POST /rooms/create requests in a run
CrossCreates == 1   \* as MaxCreates, in the runs with a room whose broadcast waits
CrossEvents == 11   \* as MaxEvents, in those runs: enough to fill a channel
OtherEvents == 5    \* events of a room made by a create request

\* ------------------------------------------------------------- values
Names == {"alice", "bob", "carol"}
HostNames == {"alice"}
Joiners == {"alice", "bob"}       \* the usernames the join requests of a run carry
HostTokens == {"t1"}
NoPassword == "None"
Passwords == {"swordfish", "wrong"}
RoomPasswords == {NoPassword, "swordfish"}
PasswordInputs == Passwords \cup {NoPassword}
Tokens == {"t1", "t2", "t3"}
NoToken == "missing"              \* a request with no Authorization header and no cookie
Texts == {"hi"}
NoPhase == "None"
Phases == {"Bidding"}
NoChan == 0
Caller == 0
CHANNEL_CAPACITY == 10
\* room codes: generate_code draws 4 of 36 characters; three of its values, so
\* that two draws can be equal
Codes == {"AAAA", "AAAB", "AAAC"}
RoomCodes == {"AAAA"}             \* the code the room of this model is registered under
ThisRoom == 0                     \* the room of this model, as a value of the registry

VARIABLES
    tokens,     \* Room.tokens: token -> username
    password,   \* Room.password
    players,    \* Room.players: username -> Player
    host,       \* Room.host
    phase,      \* Room.phase
    chans,      \* the mpsc channels allocated by connect, in allocation order
    authored,   \* how many events the room has authored (the last event's number)
    lock,       \* the room mutex: free, or the operation suspended in send_all
    ret,        \* the last call that ended, and its result
    bridges,    \* the websocket connections (game_server.rs websocket)
    rooms,      \* the registry (ServerState): code -> room
    creates,    \* the POST /rooms/create requests: where each one is, and its code
    others      \* the rooms the create requests make: members, who is connected

roomVars == <<tokens, password, players, host, phase>>
regVars == <<rooms, creates, others>>
vars == <<tokens, password, players, host, phase, chans, authored, lock, ret, bridges,
          rooms, creates, others>>

\* ------------------------------------------------------------- records
Player_default == [points |-> 0, channel_handle |-> NoChan]

\* a ServerMessage, numbered in the order the room authors them
Msg(id, kind, name, text) ==
    [id |-> id, kind |-> kind, name |-> name, text |-> text,
     players |-> {}, host |-> "", phase |-> NoPhase]

\* a Welcome that lists the connected players only
Welcome_connected_only(id, name, pl, h, ph) ==
    [id |-> id, kind |-> "Welcome", name |-> name, text |-> "",
     players |-> {[name |-> n, points |-> pl[n].points] :
                     n \in {x \in DOMAIN pl : pl[x].channel_handle # NoChan}},
     host |-> h, phase |-> ph]

\* ServerMessage::Welcome as connect builds it: one descriptor per entry of players
Welcome(id, name, pl, h, ph) ==
    [id |-> id, kind |-> "Welcome", name |-> name, text |-> "",
     players |-> {[name |-> n, points |-> pl[n].points] : n \in DOMAIN pl},
     host |-> h, phase |-> ph]

NoMsg == Msg(0, "", "", "")

Free == [kind |-> "free", who |-> Caller, name |-> "", msg |-> NoMsg, pending |-> {},
         dead |-> 0]

\* a returned call: the operation, its result, and how many of its sends failed on
\* a closed channel (errors send_all ignores)
\* ServerError::into_response: the status a handler's Err is answered with.  The
\* arm of every RoomError but GameStarted is todo!(), which panics.
into_response(err) ==
    CASE err = "RoomNotFound" -> "NOT_FOUND"
      [] err \in {"MissingUsername", "InvalidUsername", "InvalidPassword"} -> "BAD_REQUEST"
      [] err = "MissingToken" -> "UNAUTHORIZED"
      [] err = "InvalidToken" -> "FORBIDDEN"
      [] err = "GameStarted" -> "CONFLICT"
      [] OTHER -> "panic"

\* the handlers of the router answer over HTTP; the calls a websocket task
\* makes on the room are answered to that task
HttpOps == {"create", "join", "ws", "get"}

Result(op, res, dead) ==
    [op |-> op, res |-> res, dead |-> dead,
     status |-> IF op \notin HttpOps THEN "none"
                ELSE IF res = "Ok" THEN "OK" ELSE into_response(res)]

IdleBridge == [pc |-> "idle", tok |-> "", name |-> "", chan |-> NoChan,
               send |-> "none", recv |-> "none", disconnects |-> 0]

\* a create request that has not run yet
IdleCreate == [pc |-> "idle", code |-> ""]

\* the room a create request makes, in short: its members, the members that
\* hold a token, the members whose slot is set, and its count of events
other_create(h) == [players |-> {h}, tokens |-> {h}, connected |-> {}, authored |-> 0]

\* ------------------------------------------------------------- Room::create
create(h, pw, t) ==
    [tokens |-> (t :> h), password |-> pw, players |-> (h :> Player_default),
     host |-> h, phase |-> NoPhase]

\* ------------------------------------------------------------- channels
\* mpsc::channel(CHANNEL_CAPACITY): cap is the capacity the channel was made
\* with, buf is what was sent and not yet received, rx is whether the Receiver
\* still exists, born the number of the Welcome
HasPermit(ch, c) == Len(ch[c].buf) < ch[c].cap

NewChannel(name, id) ==
    [owner |-> name, cap |-> CHANNEL_CAPACITY, buf |-> <<>>, rx |-> TRUE, born |-> id]

Enqueue(ch, S, m) ==
    [c \in DOMAIN ch |-> IF c \in S THEN [ch[c] EXCEPT !.buf = Append(@, m)] ELSE ch[c]]

\* dropping the Receiver closes the channel and drops what it still holds
DropReceiver(ch, c) == [ch EXCEPT ![c].rx = FALSE, ![c].buf = <<>>]

\* the senders send_all iterates over: every player whose channel_handle is Some
Senders(pl) == {pl[u].channel_handle : u \in DOMAIN pl} \ {NoChan}

\* Sender::send fails at once when the receiver was dropped
Open(ch, S) == {c \in S : ch[c].rx}

\* ------------------------------------------------------------- returning
\* a bridge that goes on to its clean-up when its connect was refused
Resume_cleaning_up(br, who, kind, res) ==
    IF who = Caller THEN br
    ELSE [br EXCEPT ![who] =
            CASE kind = "connect" /\ res = "Ok" ->
                    [@ EXCEPT !.pc = "pumping", !.send = "run", !.recv = "run"]
              [] kind = "connect" -> [@ EXCEPT !.pc = "selected"]
              [] kind = "chat" -> [@ EXCEPT !.recv = "run"]
              [] kind = "disconnect" /\ res = "Ok" ->
                    [@ EXCEPT !.pc = "closed"]
              [] kind = "disconnect" -> [@ EXCEPT !.pc = "panicked"]
              [] OTHER -> @]

\* what the bridge does with the value a room call returns to it
Resume(br, who, kind, res) ==
    IF who = Caller THEN br
    ELSE [br EXCEPT ![who] =
            CASE kind = "connect" /\ res = "Ok" ->
                    [@ EXCEPT !.pc = "pumping", !.send = "run", !.recv = "run"]
              [] kind = "connect" -> [@ EXCEPT !.pc = "panicked"]
              [] kind = "chat" -> [@ EXCEPT !.recv = "run"]
              [] kind = "disconnect" /\ res = "Ok" ->
                    [@ EXCEPT !.pc = "closed"]
              [] kind = "disconnect" -> [@ EXCEPT !.pc = "panicked"]
              [] OTHER -> @]

\* where the calling task waits while its operation is suspended in send_all
Suspend(br, who, kind) ==
    IF who = Caller THEN br
    ELSE [br EXCEPT ![who] =
            CASE kind = "connect" -> [@ EXCEPT !.pc = "connecting"]
              [] kind = "chat" -> [@ EXCEPT !.recv = "handling"]
              [] kind = "disconnect" -> [@ EXCEPT !.pc = "disconnecting"]
              [] OTHER -> @]

\* create_token: a token the table does not hold yet, bound to the name
FreshTokens(tk) == Tokens \ DOMAIN tk

\* create_token that binds any token, one the table holds included
create_token_any(name) ==
    \E t \in Tokens : tokens' = [k \in DOMAIN tokens \cup {t} |-> IF k = t THEN name ELSE tokens[k]]

\* create_token that starts the table afresh with the new token
create_token_resetting(name) ==
    \E t \in FreshTokens(tokens) : tokens' = (t :> name)

create_token(name) ==
    \E t \in FreshTokens(tokens) : tokens' = tokens @@ (t :> name)

\* the rest of an operation's body after its send_all has completed
Return(who, kind, name, dead, br) ==
    /\ IF kind = "join" THEN create_token(name) ELSE UNCHANGED tokens
    /\ ret' = Result(kind, "Ok", dead)
    /\ bridges' = Resume(br, who, kind, "Ok")
    /\ lock' = Free

\* an Err return: nothing of the room changed
Fail(who, kind, name, err, br) ==
    /\ ret' = Result(kind, err, 0)
    /\ bridges' = Resume(br, who, kind, err)
    /\ UNCHANGED <<roomVars, chans, authored, lock, regVars>>

\* ------------------------------------------------------------- Room::send_all
\* join_all over one Sender::send per connected player: every send is polled at
\* once, the sends to channels with a free permit complete, the sends to closed
\* channels fail and are ignored, the operation waits (lock held) for the rest.
SendAllNow(ch, pl) == {c \in Open(ch, Senders(pl)) : HasPermit(ch, c)}

SendAllWait(ch, pl) == Open(ch, Senders(pl)) \ SendAllNow(ch, pl)

SendAllDead(ch, pl) == Cardinality(Senders(pl) \ Open(ch, Senders(pl)))

\* a send_all that hands the error of a closed channel to its caller
send_all_propagating(who, kind, name, pl, ch, msg, br) ==
    /\ authored' = msg.id
    /\ UNCHANGED regVars
    /\ chans' = Enqueue(ch, SendAllNow(ch, pl), msg)
    /\ IF SendAllDead(ch, pl) > 0
       THEN /\ ret' = Result(kind, "SendError", SendAllDead(ch, pl))
            /\ bridges' = Resume(br, who, kind, "SendError")
            /\ lock' = Free
            /\ UNCHANGED tokens
       ELSE IF SendAllWait(ch, pl) = {}
       THEN Return(who, kind, name, SendAllDead(ch, pl), br)
       ELSE /\ lock' = [kind |-> kind, who |-> who, name |-> name, msg |-> msg,
                        pending |-> SendAllWait(ch, pl), dead |-> SendAllDead(ch, pl)]
            /\ bridges' = Suspend(br, who, kind)
            /\ UNCHANGED <<tokens, ret>>

send_all(who, kind, name, pl, ch, msg, br) ==
    /\ authored' = msg.id
    /\ UNCHANGED regVars
    /\ chans' = Enqueue(ch, SendAllNow(ch, pl), msg)
    /\ IF SendAllWait(ch, pl) = {}
       THEN Return(who, kind, name, SendAllDead(ch, pl), br)
       ELSE /\ lock' = [kind |-> kind, who |-> who, name |-> name, msg |-> msg,
                        pending |-> SendAllWait(ch, pl), dead |-> SendAllDead(ch, pl)]
            /\ bridges' = Suspend(br, who, kind)
            /\ UNCHANGED <<tokens, ret>>

\* a suspended send completes: a permit was freed, or the receiver was dropped
SendResume(c) ==
    /\ c \in lock.pending
    /\ \/ /\ ~chans[c].rx
          /\ UNCHANGED chans
       \/ /\ chans[c].rx
          /\ HasPermit(chans, c)
          /\ chans' = Enqueue(chans, {c}, lock.msg)
    /\ UNCHANGED <<password, players, host, phase, authored, regVars>>
    /\ IF lock.pending = {c}
       THEN Return(lock.who, lock.kind, lock.name,
                   lock.dead + (IF chans[c].rx THEN 0 ELSE 1), bridges)
       ELSE /\ lock' = [lock EXCEPT !.pending = @ \ {c},
                                    !.dead = @ + (IF chans[c].rx THEN 0 ELSE 1)]
            /\ UNCHANGED <<tokens, ret, bridges>>

\* ------------------------------------------------------------- Room::join
\* join with the password compared before the membership test
JoinCheck_password_first(ph, pl, rpw, u, pw) ==
    IF ph # NoPhase THEN "GameStarted"
    ELSE IF rpw # pw THEN "IncorrectPassword"
    ELSE IF u \in DOMAIN pl THEN "PlayerExists"
    ELSE "Ok"

\* join with the membership test before the test of the phase
JoinCheck_membership_first(ph, pl, rpw, u, pw) ==
    IF u \in DOMAIN pl THEN "PlayerExists"
    ELSE IF ph # NoPhase THEN "GameStarted"
    ELSE IF rpw # pw THEN "IncorrectPassword"
    ELSE "Ok"

\* join that takes any password
JoinCheck_any_password(ph, pl, rpw, u, pw) ==
    IF ph # NoPhase THEN "GameStarted"
    ELSE IF u \in DOMAIN pl THEN "PlayerExists"
    ELSE "Ok"

JoinCheck(ph, pl, rpw, u, pw) ==
    IF ph # NoPhase THEN "GameStarted"
    ELSE IF u \in DOMAIN pl THEN "PlayerExists"
    ELSE IF rpw # pw THEN "IncorrectPassword"
    ELSE "Ok"

join(who, u, pw, br) ==
    /\ lock = Free
    /\ LET r == JoinCheck(phase, players, password, u, pw) IN
       IF r # "Ok" THEN Fail(who, "join", u, r, br)
       ELSE LET pl == players @@ (u :> Player_default) IN
            /\ players' = pl
            /\ UNCHANGED <<password, host, phase>>
            /\ send_all(who, "join", u, pl, chans, Msg(authored + 1, "Join", u, ""), br)

\* ------------------------------------------------------------- Room::connect
\* connect that lets a second connection take the slot over
ConnectCheck_takeover(pl, name) ==
    IF name \notin DOMAIN pl THEN "PlayerNotFound" ELSE "Ok"

ConnectCheck(pl, name) ==
    IF name \notin DOMAIN pl THEN "PlayerNotFound"
    ELSE IF pl[name].channel_handle # NoChan THEN "PlayerConnected"
    ELSE "Ok"

\* send_one to the channel connect has just made: it holds nothing yet
send_one(ch, c, m) == IF HasPermit(ch, c) THEN Enqueue(ch, {c}, m) ELSE ch

\* connect that admits a member once: a member that had a channel before is refused
connect_once(who, name, br) ==
    /\ lock = Free
    /\ LET r == IF \E k \in DOMAIN chans : chans[k].owner = name
                THEN "PlayerConnected" ELSE ConnectCheck(players, name) IN
       IF r # "Ok" THEN Fail(who, "connect", name, r, br)
       ELSE LET c  == Len(chans) + 1
                pl == [players EXCEPT ![name].channel_handle = c]
                w  == Welcome(authored + 1, name, pl, host, phase)
                ch == send_one(Append(chans, NewChannel(name, w.id)), c, w)
            IN /\ players' = pl
               /\ UNCHANGED <<password, host, phase>>
               /\ send_all(who, "connect", name, pl, ch,
                           Msg(authored + 2, "Connect", name, ""),
                           IF who = Caller THEN br
                           ELSE [br EXCEPT ![who].chan = c])

connect(who, name, br) ==
    /\ lock = Free
    /\ LET r == ConnectCheck(players, name) IN
       IF r # "Ok" THEN Fail(who, "connect", name, r, br)
       ELSE LET c  == Len(chans) + 1
                pl == [players EXCEPT ![name].channel_handle = c]
                w  == Welcome(authored + 1, name, pl, host, phase)
                ch == send_one(Append(chans, NewChannel(name, w.id)), c, w)
            IN /\ players' = pl
               /\ UNCHANGED <<password, host, phase>>
               /\ send_all(who, "connect", name, pl, ch,
                           Msg(authored + 2, "Connect", name, ""),
                           IF who = Caller THEN br
                           ELSE [br EXCEPT ![who].chan = c])

\* ------------------------------------------------------------- Room::disconnect
\* disconnect that succeeds again for a member whose slot is already empty
DisconnectCheck_idempotent(pl, name) ==
    IF name \notin DOMAIN pl THEN "PlayerNotFound" ELSE "Ok"

DisconnectCheck(pl, name) ==
    IF name \notin DOMAIN pl THEN "PlayerNotFound"
    ELSE IF pl[name].channel_handle = NoChan THEN "PlayerDisconnected"
    ELSE "Ok"

disconnect(who, name, br) ==
    /\ lock = Free
    /\ LET r == DisconnectCheck(players, name) IN
       IF r # "Ok" THEN Fail(who, "disconnect", name, r, br)
       ELSE LET pl == [players EXCEPT ![name].channel_handle = NoChan] IN
            /\ players' = pl
            /\ UNCHANGED <<password, host, phase>>
            /\ send_all(who, "disconnect", name, pl, chans,
                        Msg(authored + 1, "Disconnect", name, ""), br)

\* ------------------------------------------------------------- Room::handle_message
\* handle_message that sends the chat under the host's name
handle_message_as_host(who, name, text, br) ==
    /\ lock = Free
    /\ UNCHANGED roomVars
    /\ send_all(who, "chat", name, players, chans, Msg(authored + 1, "Chat", host, text), br)

handle_message(who, name, text, br) ==
    /\ lock = Free
    /\ UNCHANGED roomVars
    /\ send_all(who, "chat", name, players, chans, Msg(authored + 1, "Chat", name, text), br)

\* ------------------------------------------------------------- Room::authenticate
\* authenticate that answers with an entry of the table whatever the token is
authenticate_any_entry(tk, tok) == tk[CHOOSE t \in DOMAIN tk : TRUE]

authenticate(tk, tok) == IF tok \in DOMAIN tk THEN tk[tok] ELSE ""

\* ============================================================= the server
\* POST /rooms/{code}/join
handle_join(u, pw) == join(Caller, u, pw, bridges)

\* GET /rooms/{code}/ws: the token is authenticated before the upgrade
websocket_handler(b, tok) ==
    /\ bridges[b].pc = "idle"
    /\ \A a \in 1..(b - 1) : bridges[a].pc # "idle"    \* connections numbered as they arrive
    /\ lock = Free
    /\ IF tok = NoToken
       THEN /\ ret' = Result("ws", "MissingToken", 0)
            /\ UNCHANGED bridges
       ELSE IF authenticate(tokens, tok) = ""
       THEN /\ ret' = Result("ws", "InvalidToken", 0)
            /\ UNCHANGED bridges
       ELSE /\ ret' = Result("ws", "Ok", 0)
            /\ bridges' = [bridges EXCEPT ![b] =
                    [@ EXCEPT !.pc = "upgraded", !.tok = tok,
                              !.name = authenticate(tokens, tok)]]
    /\ UNCHANGED <<roomVars, chans, authored, lock, regVars>>

\* websocket(): room.lock().await.connect(username).await.expect(..)
websocket_connect(b) ==
    /\ bridges[b].pc = "upgraded"
    /\ connect(b, bridges[b].name, bridges)

\* send_task: one event taken from the channel and written to the socket
send_task_forward(b) ==
    LET c == bridges[b].chan IN
    /\ bridges[b].send = "run"
    /\ chans[c].buf # <<>>
    /\ chans' = [chans EXCEPT ![c].buf = Tail(@)]
    /\ UNCHANGED <<roomVars, authored, lock, ret, bridges, regVars>>

\* send_task ends: the write of the event it took fails, or recv gives None
\* (every sender dropped and nothing buffered); its receiver is dropped with it
send_task_ends(b) ==
    LET c == bridges[b].chan IN
    /\ bridges[b].send = "run"
    /\ \/ chans[c].buf # <<>>
       \/ chans[c].buf = <<>> /\ c \notin Senders(players)
    /\ chans' = DropReceiver(chans, c)
    /\ bridges' = [bridges EXCEPT ![b].send = "done"]
    /\ UNCHANGED <<roomVars, authored, lock, ret, regVars>>

\* receive_task: a text frame that decodes to Chat is handed to the room
receive_task_chat(b, text) ==
    /\ bridges[b].recv = "run"
    /\ handle_message(b, bridges[b].name, text, bridges)

\* receive_task ends: the socket closed, failed or gave a frame that is no text
receive_task_ends(b) ==
    /\ bridges[b].recv = "run"
    /\ bridges' = [bridges EXCEPT ![b].recv = "done"]
    /\ UNCHANGED <<roomVars, chans, authored, lock, ret, regVars>>

\* a panic of the receive task that takes the room down with it: the lock is
\* left held by nobody
receive_task_panics_poisoning(b) ==
    /\ bridges[b].recv = "run"
    /\ lock = Free
    /\ bridges' = [bridges EXCEPT ![b].recv = "panicked"]
    /\ lock' = [Free EXCEPT !.kind = "poisoned"]
    /\ UNCHANGED <<roomVars, chans, authored, ret, regVars>>

\* receive_task panics: a text frame serde_json cannot decode (expect)
receive_task_panics(b) ==
    /\ bridges[b].recv = "run"
    /\ bridges' = [bridges EXCEPT ![b].recv = "panicked"]
    /\ UNCHANGED <<roomVars, chans, authored, lock, ret, regVars>>

\* receive_task panics: a frame that decodes to Start is handed to
\* handle_message, whose Start arm is unimplemented!(); the panic unwinds
\* through the lock guard, which releases the room
receive_task_start(b) ==
    /\ bridges[b].recv = "run"
    /\ lock = Free
    /\ bridges' = [bridges EXCEPT ![b].recv = "panicked"]
    /\ ret' = Result("start", "panic", 0)
    /\ UNCHANGED <<roomVars, chans, authored, lock, regVars>>

SendTaskOver(b) == bridges[b].send = "done"

ReceiveTaskOver(b) == bridges[b].recv \in {"done", "panicked"}

\* a select that waits for the first task and leaves the other running
select_no_abort(b) ==
    /\ bridges[b].pc = "pumping"
    /\ SendTaskOver(b) \/ ReceiveTaskOver(b)
    /\ bridges' = [bridges EXCEPT ![b].pc = "selected"]
    /\ UNCHANGED <<roomVars, chans, authored, lock, ret, regVars>>

\* tokio::select!: the first task to finish aborts the other, and neither task
\* exists afterwards.  Aborting the receive task drops its future: a
\* handle_message suspended in send_all gives up its pending sends and releases
\* the lock.  Aborting the send task drops the channel's receiver.
select(b) ==
    LET c == bridges[b].chan IN
    /\ bridges[b].pc = "pumping"
    /\ \/ /\ SendTaskOver(b)
          /\ bridges' = [bridges EXCEPT ![b].pc = "selected",
                            ![b].send = "none", ![b].recv = "none"]
          /\ lock' = IF lock.who = b /\ lock.kind = "chat" THEN Free ELSE lock
          /\ UNCHANGED chans
       \/ /\ ReceiveTaskOver(b)
          /\ bridges' = [bridges EXCEPT ![b].pc = "selected",
                            ![b].send = "none", ![b].recv = "none"]
          /\ chans' = DropReceiver(chans, c)
          /\ UNCHANGED lock
    /\ UNCHANGED <<roomVars, authored, ret, regVars>>

\* websocket(): room.lock().await.disconnect(username).await.unwrap()
websocket_disconnect(b) ==
    /\ bridges[b].pc = "selected"
    /\ disconnect(b, bridges[b].name,
                  [bridges EXCEPT ![b].disconnects = @ + 1])

Init ==
    /\ \E h \in HostNames, pw \in RoomPasswords, t \in HostTokens :
          LET room == create(h, pw, t) IN
          /\ tokens = room.tokens
          /\ password = room.password
          /\ players = room.players
          /\ host = room.host
          /\ phase = room.phase
          /\ ret = Result("create", "Ok", 0)
    /\ chans = <<>>
    /\ authored = 0
    /\ lock = Free
    /\ bridges = [b \in 1..MaxBridges |-> IdleBridge]
    /\ \E c \in RoomCodes : rooms = (c :> ThisRoom)
    /\ creates = [r \in 1..MaxCreates |-> IdleCreate]
    /\ \E h \in HostNames : others = [r \in 1..MaxCreates |-> other_create(h)]

\* the runs explored: at most MaxChans connects, chats up to MaxEvents events
Next ==
    \/ \E u \in Joiners, pw \in PasswordInputs : handle_join(u, pw)
    \/ \E b \in 1..MaxBridges, tok \in Tokens \cup {NoToken} : websocket_handler(b, tok)
    \/ \E b \in 1..MaxBridges : Len(chans) < MaxChans /\ websocket_connect(b)
    \/ \E b \in 1..MaxBridges : send_task_forward(b)
    \/ \E b \in 1..MaxBridges : send_task_ends(b)
    \/ \E b \in 1..MaxBridges, text \in Texts :
          authored < MaxEvents /\ receive_task_chat(b, text)
    \/ \E b \in 1..MaxBridges : receive_task_ends(b)
    \/ \E b \in 1..MaxBridges : receive_task_panics(b)
    \/ \E b \in 1..MaxBridges : receive_task_start(b)
    \/ \E b \in 1..MaxBridges : select(b)
    \/ \E b \in 1..MaxBridges : websocket_disconnect(b)

\* the websocket task is woken when a task it selects on has finished, and the
\* runtime runs a task that stays ready
Fairness == \A b \in 1..MaxBridges : WF_vars(select(b))

Spec == Init /\ [][Next]_vars /\ Fairness

\* ============================================================= the room of room.rs
\* Room::create as src/game_server/room.rs has it, the module game_server.rs
\* declares and takes Room from: the insert of the host into players is
\* commented out, the host's token is created
Room_create(h, pw, t) ==
    [tokens |-> (t :> h), password |-> pw, players |-> [n \in {} |-> Player_default],
     host |-> h, phase |-> NoPhase]

ActorInit ==
    /\ \E h \in HostNames, pw \in RoomPasswords, t \in HostTokens :
          LET room == Room_create(h, pw, t) IN
          /\ tokens = room.tokens
          /\ password = room.password
          /\ players = room.players
          /\ host = room.host
          /\ phase = room.phase
          /\ ret = Result("create", "Ok", 0)
    /\ chans = <<>>
    /\ authored = 0
    /\ lock = Free
    /\ bridges = [b \in 1..MaxBridges |-> IdleBridge]
    /\ \E c \in RoomCodes : rooms = (c :> ThisRoom)
    /\ creates = [r \in 1..MaxCreates |-> IdleCreate]
    /\ \E h \in HostNames : others = [r \in 1..MaxCreates |-> other_create(h)]

ActorSpec == ActorInit /\ [][Next]_vars /\ Fairness

\* ============================================================= callers of the Room API
\* Any caller of the pub functions of Room (a test, another front end): it
\* calls with any username and keeps the Receivers that connect returned.
api_connect(u) == connect(Caller, u, bridges)

api_disconnect(u) == disconnect(Caller, u, bridges)

api_handle_message(u, text) == handle_message(Caller, u, text, bridges)

\* Receiver::recv
api_recv(c) ==
    /\ chans[c].rx
    /\ chans[c].buf # <<>>
    /\ chans' = [chans EXCEPT ![c].buf = Tail(@)]
    /\ UNCHANGED <<roomVars, authored, lock, ret, bridges, regVars>>

\* the Receiver goes out of scope
api_drop(c) ==
    /\ chans[c].rx
    /\ chans' = DropReceiver(chans, c)
    /\ UNCHANGED <<roomVars, authored, lock, ret, bridges, regVars>>

ApiNext ==
    \/ \E u \in Joiners, pw \in PasswordInputs : handle_join(u, pw)
    \/ \E u \in Names : Len(chans) < MaxChans /\ api_connect(u)
    \/ \E u \in Names : api_disconnect(u)
    \/ \E u \in Names, text \in Texts : authored < ApiEvents /\ api_handle_message(u, text)
    \/ \E c \in DOMAIN chans : api_recv(c)
    \/ \E c \in DOMAIN chans : api_drop(c)

ApiSpec == Init /\ [][ApiNext]_vars

\* ============================================================= join, as a function of the room
\* Room::join applied to rooms in every state of the phase field: the callers
\* of ApiSpec, on a room whose phase is unset or set (nothing in src/ writes
\* the field after create, so a set phase is an input here).
JoinInit ==
    /\ \E h \in HostNames, pw \in RoomPasswords, t \in HostTokens, ph \in Phases \cup {NoPhase} :
          LET room == [create(h, pw, t) EXCEPT !.phase = ph] IN
          /\ tokens = room.tokens
          /\ password = room.password
          /\ players = room.players
          /\ host = room.host
          /\ phase = room.phase
          /\ ret = Result("create", "Ok", 0)
    /\ chans = <<>>
    /\ authored = 0
    /\ lock = Free
    /\ bridges = [b \in 1..MaxBridges |-> IdleBridge]
    /\ \E c \in RoomCodes : rooms = (c :> ThisRoom)
    /\ creates = [r \in 1..MaxCreates |-> IdleCreate]
    /\ \E h \in HostNames : others = [r \in 1..MaxCreates |-> other_create(h)]

JoinNext ==
    \/ \E u \in Names, pw \in PasswordInputs : handle_join(u, pw)
    \/ \E u \in Names : Len(chans) < MaxChans /\ api_connect(u)
    \/ \E u \in Names : api_disconnect(u)
    \/ \E c \in DOMAIN chans : api_recv(c)

JoinSpec == JoinInit /\ [][JoinNext]_vars

\* ============================================================= usernames as requests carry them
\* ammonia's Builder::empty().clean: no tag is allowed, so markup is stripped
\* and the text between the tags is kept
clean(value) ==
    CASE value = "<b>bob</b>" -> "bob"
      [] value = "<i>alice</i>" -> "alice"
      [] OTHER -> value

\* Username::validate: Ok for a value that clean leaves as it is
validate(value) == IF value = clean(value) THEN "Ok" ELSE "ValidationError"

\* the usernames of the join requests: the JSON field is any string
RequestNames == {"bob", "<b>bob</b>", "<i>alice</i>"}

\* handle_join hands payload.username to Room::join as it came
RawNext ==
    \/ \E u \in RequestNames, pw \in PasswordInputs : handle_join(u, pw)
    \/ \E u \in RequestNames \cup HostNames : Len(chans) < MaxChans /\ api_connect(u)
    \/ \E u \in RequestNames \cup HostNames : api_disconnect(u)
    \/ \E c \in DOMAIN chans : api_recv(c)

RawSpec == Init /\ [][RawNext]_vars

\* ============================================================= the registry
\* handle_create, up to the end of its while loop: a code is generated and
\* looked up under the registry lock, which is released after each lookup; a
\* code the registry holds sends the loop round again
handle_create_contains_key(r, c) ==
    /\ creates[r].pc \in {"idle", "generating"}
    /\ creates' = [creates EXCEPT ![r] =
            [pc |-> IF c \in DOMAIN rooms THEN "generating" ELSE "generated", code |-> c]]
    /\ UNCHANGED <<roomVars, chans, authored, lock, ret, bridges, rooms, others>>

\* HashMap::insert: the entry of the code is set, whether or not it existed
insert(m, c, room) == [k \in DOMAIN m \cup {c} |-> IF k = c THEN room ELSE m[k]]

\* handle_create after the loop: Room::create, then the registry lock is taken
\* again for the insert, and the code is answered
handle_create_insert(r) ==
    /\ creates[r].pc = "generated"
    /\ rooms' = insert(rooms, creates[r].code, r)
    /\ creates' = [creates EXCEPT ![r].pc = "answered"]
    /\ UNCHANGED <<roomVars, chans, authored, lock, ret, bridges, others>>

\* a lookup that is made with the room of this model locked
registry_get_behind_room(c) ==
    /\ lock = Free
    /\ ret' = Result("get", IF c \in DOMAIN rooms THEN "Ok" ELSE "RoomNotFound", 0)
    /\ UNCHANGED <<roomVars, chans, authored, lock, bridges, regVars>>

\* handle_join and websocket_handler begin with rooms.lock().await.get(code):
\* the room, or RoomNotFound
registry_get(c) ==
    /\ ret' = Result("get", IF c \in DOMAIN rooms THEN "Ok" ELSE "RoomNotFound", 0)
    /\ UNCHANGED <<roomVars, chans, authored, lock, bridges, regVars>>

\* ------------------------------------------------------------- the other rooms
\* Each room is its own Arc<Mutex<Room>>: a handler looks the room up under the
\* registry lock, lets go of that lock, and only then locks the room.  The
\* clients of these rooms read what they are sent, so an operation on them
\* runs to its end in one step.
Registered(r) == \E c \in DOMAIN rooms : rooms[c] = r

other_join(r, u) ==
    /\ Registered(r)
    /\ IF u \in others[r].players
       THEN /\ ret' = Result("join", "PlayerExists", 0)
            /\ UNCHANGED others
       ELSE /\ ret' = Result("join", "Ok", 0)
            /\ others' = [others EXCEPT ![r].players = @ \cup {u},
                                        ![r].tokens = @ \cup {u},
                                        ![r].authored = @ + 1]
    /\ UNCHANGED <<roomVars, chans, authored, lock, bridges, rooms, creates>>

other_connect(r, u) ==
    /\ Registered(r)
    /\ IF u \notin others[r].players
       THEN /\ ret' = Result("connect", "PlayerNotFound", 0)
            /\ UNCHANGED others
       ELSE IF u \in others[r].connected
       THEN /\ ret' = Result("connect", "PlayerConnected", 0)
            /\ UNCHANGED others
       ELSE /\ ret' = Result("connect", "Ok", 0)
            /\ others' = [others EXCEPT ![r].connected = @ \cup {u},
                                        ![r].authored = @ + 2]
    /\ UNCHANGED <<roomVars, chans, authored, lock, bridges, rooms, creates>>

other_disconnect(r, u) ==
    /\ Registered(r)
    /\ IF u \notin others[r].players
       THEN /\ ret' = Result("disconnect", "PlayerNotFound", 0)
            /\ UNCHANGED others
       ELSE IF u \notin others[r].connected
       THEN /\ ret' = Result("disconnect", "PlayerDisconnected", 0)
            /\ UNCHANGED others
       ELSE /\ ret' = Result("disconnect", "Ok", 0)
            /\ others' = [others EXCEPT ![r].connected = @ \ {u},
                                        ![r].authored = @ + 1]
    /\ UNCHANGED <<roomVars, chans, authored, lock, bridges, rooms, creates>>

other_handle_message(r, u) ==
    /\ Registered(r)
    /\ u \in others[r].connected
    /\ ret' = Result("chat", "Ok", 0)
    /\ others' = [others EXCEPT ![r].authored = @ + 1]
    /\ UNCHANGED <<roomVars, chans, authored, lock, bridges, rooms, creates>>

\* One room with a client that does not read what it is sent, until a
\* broadcast of that room waits on the full channel with the room locked; one
\* create request, and the callers of the room it makes.
CrossNext ==
    \/ \E u \in Joiners, pw \in PasswordInputs : handle_join(u, pw)
    \/ \E u \in HostNames : Len(chans) < MaxChans /\ api_connect(u)
    \/ \E u \in HostNames, text \in Texts :
          authored < CrossEvents /\ api_handle_message(u, text)
    \/ \E r \in 1..CrossCreates, c \in Codes : handle_create_contains_key(r, c)
    \/ \E r \in 1..CrossCreates : handle_create_insert(r)
    \/ \E c \in Codes : registry_get(c)
    \/ \E r \in 1..CrossCreates, u \in Joiners :
          others[r].authored < OtherEvents /\ other_join(r, u)
    \/ \E r \in 1..CrossCreates, u \in Joiners :
          others[r].authored < OtherEvents /\ other_connect(r, u)
    \/ \E r \in 1..CrossCreates, u \in Joiners :
          others[r].authored < OtherEvents /\ other_disconnect(r, u)
    \/ \E r \in 1..CrossCreates, u \in Joiners :
          others[r].authored < OtherEvents /\ other_handle_message(r, u)

CrossSpec == Init /\ [][CrossNext]_vars

RegNext ==
    \/ \E r \in 1..MaxCreates, c \in Codes : handle_create_contains_key(r, c)
    \/ \E r \in 1..MaxCreates : handle_create_insert(r)
    \/ \E c \in Codes : registry_get(c)

RegSpec == Init /\ [][RegNext]_vars

\* ============================================================= a client that stopped reading
\* The server with every request well-formed and the client of the first
\* connection not reading: its send task takes the Welcome and the write of it
\* never completes, so the channel is not drained any more.  Long enough for
\* that channel to fill; the other clients chat only once it is full.  The
\* runtime runs a task that stays ready (select, the disconnect after it, a
\* send that got its permit); nothing makes a client send or read.
StallInit == Init /\ password = NoPassword

StallNext ==
    \/ \E u \in Joiners : handle_join(u, password)
    \/ \E b \in 1..MaxBridges, tok \in DOMAIN tokens : websocket_handler(b, tok)
    \/ \E b \in 1..MaxBridges : Len(chans) < MaxChans /\ websocket_connect(b)
    \/ \E b \in 1..MaxBridges :
          /\ send_task_forward(b)
          /\ b = 1 => Head(chans[bridges[b].chan].buf).kind = "Welcome"
    \/ \E b \in 1..MaxBridges : send_task_ends(b)
    \/ \E b \in 1..MaxBridges, text \in Texts :
          /\ authored < StallEvents
          /\ b = 1 \/ (bridges[1].pc = "pumping" /\ ~HasPermit(chans, bridges[1].chan))
          /\ receive_task_chat(b, text)
    \/ \E b \in 1..MaxBridges : receive_task_ends(b)
    \/ \E b \in 1..MaxBridges : select(b)
    \/ \E b \in 1..MaxBridges : websocket_disconnect(b)
    \/ \E c \in DOMAIN chans : SendResume(c)

StallFairness ==
    /\ \A b \in 1..MaxBridges : WF_vars(select(b)) /\ WF_vars(websocket_disconnect(b))
    /\ \A c \in 1..MaxChans : WF_vars(SendResume(c))

StallSpec == StallInit /\ [][StallNext]_vars /\ StallFairness

\* ============================================================= properties
Range(f) == {f[x] : x \in DOMAIN f}

\* in this step the event m went to every connected player of pl: appended to
\* its channel, or waiting in send_all for a permit of it; closed channels and
\* the channels of no player stay as they are
BroadcastTo(pl, m) ==
    \A c \in DOMAIN chans :
        IF c \in Open(chans, Senders(pl))
        THEN \/ chans'[c] = [chans[c] EXCEPT !.buf = Append(@, m)]
             \/ chans'[c] = chans[c] /\ c \in lock'.pending /\ lock'.msg = m
        ELSE chans'[c] = chans[c]

BroadcastStep(m) == BroadcastTo(players, m)

\* ------------------------------------------------------------- C1
\* the parts of C1: the token table, and one step of handle_join
C1_TokensNameDistinctPlayers ==
    \A t1, t2 \in DOMAIN tokens : tokens[t1] = tokens[t2] => t1 = t2

C1_JoinStep ==
    \A u \in Names, pw \in PasswordInputs :
        handle_join(u, pw) =>
            /\ u \in DOMAIN players =>
                  /\ ret' = Result("join", "PlayerExists", 0)
                  /\ players' = players
                  /\ tokens' = tokens
            /\ (ret'.res = "Ok" /\ lock' = Free) =>
                  /\ u \notin DOMAIN players
                  /\ DOMAIN players' = DOMAIN players \cup {u}
                  /\ Range(tokens') = Range(tokens) \cup {u}

\* C1: a join whose username is already a member (the host included) fails with
\* PlayerExists whatever password it carries and leaves players and tokens as
\* they were; a join that succeeds adds a username that was no member; so the
\* accepted usernames are pairwise distinct: no two tokens are bound to one name.
C1_DuplicateJoinRejected ==
    [](phase = NoPhase => C1_TokensNameDistinctPlayers) /\ [][C1_JoinStep]_vars

\* a duplicate join was refused in a room that had accepted a join before
C1_Witness ==
    /\ ret = Result("join", "PlayerExists", 0)
    /\ Cardinality(DOMAIN players) = 2
    /\ Cardinality(DOMAIN tokens) = 2
    /\ password # NoPassword

\* ------------------------------------------------------------- C2
\* the parts of C2: what a connection holds, and one step of the server
C2_BridgeIsTokenOwner ==
    \A b \in 1..MaxBridges :
        bridges[b].pc # "idle" =>
            /\ bridges[b].tok \in DOMAIN tokens
            /\ bridges[b].name = tokens[bridges[b].tok]
            /\ bridges[b].chan # NoChan =>
                  LET c == bridges[b].chan IN
                  /\ chans[c].owner = tokens[bridges[b].tok]
                  /\ \A i \in DOMAIN chans[c].buf :
                        LET m == chans[c].buf[i] IN
                        /\ m.id = chans[c].born =>
                              m.kind = "Welcome" /\ m.name = tokens[bridges[b].tok]
                        /\ m.id = chans[c].born + 1 =>
                              m.kind = "Connect" /\ m.name = tokens[bridges[b].tok]
                  /\ bridges[b].pc = "pumping" =>
                        players[tokens[bridges[b].tok]].channel_handle = c

C2_Step ==
    /\ \A t \in DOMAIN tokens : t \in DOMAIN tokens' /\ tokens'[t] = tokens[t]
    /\ \A b \in 1..MaxBridges, tok \in Tokens :
          (websocket_handler(b, tok) /\ tok \notin DOMAIN tokens) =>
              /\ ret' = Result("ws", "InvalidToken", 0)
              /\ UNCHANGED <<roomVars, chans, authored, bridges>>

\* C2: a connection made with a token is the connection of the username that
\* token was bound to when it was issued (bindings never change): the slot it
\* fills, the Welcome and the Connect it causes all carry that username; a token
\* that was never issued is refused and nothing of the room changes.
C2_ConnectResolvesToken == []C2_BridgeIsTokenOwner /\ [][C2_Step]_vars

\* a joined player's connection holds its Welcome, and a token never issued was refused
C2_Witness ==
    /\ ret = Result("ws", "InvalidToken", 0)
    /\ \E b \in 1..MaxBridges :
          /\ bridges[b].pc = "pumping"
          /\ bridges[b].name # host
          /\ chans[bridges[b].chan].buf # <<>>
          /\ Head(chans[bridges[b].chan].buf).kind = "Welcome"

\* ------------------------------------------------------------- C3
\* the part of C3: one step of a connection's connect
C3_Step ==
    \A b \in 1..MaxBridges :
        (websocket_connect(b) /\ bridges[b].name \in DOMAIN players
            /\ players[bridges[b].name].channel_handle # NoChan) =>
                /\ ret' = Result("connect", "PlayerConnected", 0)
                /\ UNCHANGED <<roomVars, chans, authored>>

\* C3: connect for a player whose slot is filled fails with PlayerConnected: no
\* channel is allocated, no Welcome or Connect is authored, and the slot and
\* the channel of the first connection are as they were.
C3_SecondConnectRejected == [][C3_Step]_vars

\* two connections of one player: the first is pumping, the second was refused
C3_Witness ==
    /\ ret = Result("connect", "PlayerConnected", 0)
    /\ \E a, b \in 1..MaxBridges :
          /\ bridges[a].pc = "pumping"
          /\ bridges[b].pc = "panicked"
          /\ bridges[a].name = bridges[b].name
          /\ players[bridges[a].name].channel_handle = bridges[a].chan
          /\ Len(chans) = 1

\* ------------------------------------------------------------- C4
\* the part of C4: one step of disconnect
C4_Step ==
    \A u \in Names :
        api_disconnect(u) =>
            /\ u \notin DOMAIN players =>
                  /\ ret' = Result("disconnect", "PlayerNotFound", 0)
                  /\ UNCHANGED <<roomVars, chans, authored>>
            /\ (u \in DOMAIN players /\ players[u].channel_handle = NoChan) =>
                  /\ ret' = Result("disconnect", "PlayerDisconnected", 0)
                  /\ UNCHANGED <<roomVars, chans, authored>>
            /\ (u \in DOMAIN players /\ players[u].channel_handle # NoChan) =>
                  /\ lock' = Free => ret'.op = "disconnect" /\ ret'.res = "Ok"
                  /\ players' = [players EXCEPT ![u].channel_handle = NoChan]
                  /\ authored' = authored + 1
                  /\ \A c \in DOMAIN chans :
                        IF c \in Senders(players') /\ chans[c].rx
                        THEN \/ chans'[c].buf =
                                  Append(chans[c].buf,
                                         Msg(authored', "Disconnect", u, ""))
                             \/ /\ ~HasPermit(chans, c)
                                /\ c \in lock'.pending
                                /\ lock'.msg = Msg(authored', "Disconnect", u, "")
                                /\ chans'[c].buf = chans[c].buf
                        ELSE chans'[c].buf = chans[c].buf

\* C4: disconnect of a username that is no member fails with PlayerNotFound, of
\* a member whose slot is empty with PlayerDisconnected, both without a
\* Disconnect event and without any change; otherwise it empties the slot and
\* appends Disconnect{username} to the channel of every player still connected
\* (slot filled, receiver alive), with a full channel waited for.
C4_DisconnectOutcomes == [][C4_Step]_vars

\* a second disconnect of a player was refused, and the Disconnect of the first
\* is in the channel of a player still connected
C4_Witness ==
    /\ ret = Result("disconnect", "PlayerDisconnected", 0)
    /\ \E c, d \in DOMAIN chans :
          /\ players[chans[c].owner].channel_handle = NoChan
          /\ players[chans[d].owner].channel_handle = d
          /\ chans[d].buf # <<>>
          /\ chans[d].buf[Len(chans[d].buf)] =
                Msg(authored, "Disconnect", chans[c].owner, "")

\* ------------------------------------------------------------- C5
\* the parts of C5: what the channels hold, and one step of the server
C5_InOrder ==
    \A c \in DOMAIN chans :
        /\ \A i, j \in DOMAIN chans[c].buf :
              i < j => chans[c].buf[i].id < chans[c].buf[j].id
        /\ \A i \in DOMAIN chans[c].buf : chans[c].buf[i].id >= chans[c].born

C5_Step ==
    \A c \in DOMAIN chans :
        /\ (authored' # authored /\ c \in Senders(players') /\ chans[c].rx) =>
              \/ /\ chans'[c].buf # <<>>
                 /\ chans'[c].buf[Len(chans'[c].buf)].id = authored'
                 /\ Len(chans'[c].buf) = Len(chans[c].buf) + 1
              \/ c \in lock'.pending
        /\ (c \in lock.pending /\ c \notin lock'.pending /\ chans[c].rx) =>
              chans'[c].buf = Append(chans[c].buf, lock.msg)

\* C5: every event the room authors is appended, once, to the channel of every
\* player connected (slot filled, receiver alive) when it is authored, at once
\* or when the suspended send gets its permit; every channel holds the events
\* in the order of their numbers; no channel holds an event older than itself.
C5_DeliveredOnceInOrder == []C5_InOrder /\ [][C5_Step]_vars

\* ------------------------------------------------------------- C6
\* the parts of C6: where a Welcome sits, and the step of a successful connect
C6_WelcomeInPlace ==
    \A c \in DOMAIN chans : \A i \in DOMAIN chans[c].buf :
        LET m == chans[c].buf[i] IN
        /\ m.kind = "Welcome" =>
              /\ i = 1
              /\ m.id = chans[c].born
              /\ m.name = chans[c].owner
              /\ chans[c].owner \in {d.name : d \in m.players}
        /\ (i = 2 /\ chans[c].buf[1].kind = "Welcome") =>
              m = Msg(chans[c].born + 1, "Connect", chans[c].owner, "")

C6_Step ==
    Len(chans') > Len(chans) =>
        LET c == Len(chans')
            u == chans'[c].owner
            own == Msg(authored + 2, "Connect", u, "")
        IN /\ c = Len(chans) + 1
           /\ players' = [players EXCEPT ![u].channel_handle = c]
           /\ chans'[c].buf =
                 << [id |-> authored + 1, kind |-> "Welcome", name |-> u, text |-> "",
                     players |-> {[name |-> n, points |-> players[n].points] :
                                     n \in DOMAIN players},
                     host |-> host, phase |-> phase],
                    own >>
           /\ \A d \in DOMAIN chans :
                 IF d \in Senders(players) /\ chans[d].rx
                 THEN \/ chans'[d].buf = Append(chans[d].buf, own)
                      \/ /\ ~HasPermit(chans, d)
                         /\ d \in lock'.pending
                         /\ lock'.msg = own
                         /\ chans'[d].buf = chans[d].buf
                 ELSE chans'[d].buf = chans[d].buf

C7_FullChannel == \E c \in DOMAIN chans : chans[c].rx /\ ~HasPermit(chans, c)

\* C7: while a recipient's channel is full and its consumer alive, the room
\* still takes the operations of the others: a join, the chat of a connection
\* whose receive task is waiting for a frame, the disconnect of a connection
\* whose pumps have stopped.
C7_FullChannelBlocksNobody ==
    C7_FullChannel =>
        /\ \A u \in Joiners : ENABLED handle_join(u, password)
        /\ \A b \in 1..MaxBridges :
              /\ bridges[b].recv = "run" => ENABLED receive_task_chat(b, "hi")
              /\ bridges[b].pc = "selected" => ENABLED websocket_disconnect(b)

\* ------------------------------------------------------------- C8
\* the parts of C8: the steps that author an event
C8_NoRecipientFull ==
    \A c \in Senders(players') \cap DOMAIN chans : chans[c].rx => HasPermit(chans, c)

C8_Step ==
    (authored' # authored /\ Len(chans') = Len(chans)) =>
        /\ C8_NoRecipientFull =>
              /\ lock' = Free
              /\ ret'.res = "Ok"
              /\ ret'.op \in {"join", "disconnect", "chat"}
        /\ \A c \in DOMAIN chans : ~chans[c].rx => chans'[c] = chans[c]
        /\ Senders(players') = {} => chans' = chans

C8_ConnectStep ==
    (authored' # authored /\ Len(chans') # Len(chans)) =>
        /\ C8_NoRecipientFull =>
              /\ lock' = Free
              /\ ret'.res = "Ok"
              /\ ret'.op = "connect"
        /\ \A c \in DOMAIN chans : ~chans[c].rx => chans'[c] = chans[c]

C9_Selected(b) == bridges[b].pc \in {"selected", "disconnecting", "closed"}

C9_State ==
    \A b \in 1..MaxBridges :
        /\ C9_Selected(b) =>
              /\ bridges[b].send = "none"
              /\ bridges[b].recv = "none"
              /\ ~chans[bridges[b].chan].rx
              /\ ~(lock.who = b /\ lock.kind = "chat")
        /\ (bridges[b].pc = "pumping" /\ (SendTaskOver(b) \/ ReceiveTaskOver(b))) =>
              ENABLED select(b)

C9_AfterSelect ==
    \A b \in 1..MaxBridges :
        C9_Selected(b) =>
            /\ \A text \in Texts : ~receive_task_chat(b, text)
            /\ ~send_task_forward(b)
            /\ ~send_task_ends(b)

C10_AtMostOnceAfterPumps ==
    \A b \in 1..MaxBridges :
        /\ bridges[b].disconnects <= 1
        /\ bridges[b].disconnects = 1 =>
              /\ bridges[b].send = "none"
              /\ bridges[b].recv = "none"
              /\ bridges[b].chan # NoChan

\* C10: disconnect is invoked at most once for a connection, and only when
\* neither pump exists any more; and whenever a pump of a connection has
\* terminated, the disconnect of that connection is eventually invoked.
C10_DisconnectExactlyOnce ==
    /\ []C10_AtMostOnceAfterPumps
    /\ \A b \in 1..MaxBridges :
          (bridges[b].pc = "pumping" /\ (SendTaskOver(b) \/ ReceiveTaskOver(b)))
              ~> (bridges[b].disconnects = 1)

\* ------------------------------------------------------------- C11
\* the connect of a bridge that fails
C11_FailedConnect(b) ==
    /\ websocket_connect(b)
    /\ ConnectCheck(players, bridges[b].name) # "Ok"

C11_Step ==
    \A b \in 1..MaxBridges :
        C11_FailedConnect(b) =>
            /\ bridges'[b].pc = "rejected"
            /\ bridges'[b].send = "none" /\ bridges'[b].recv = "none"
            /\ bridges'[b].disconnects = 0
            /\ \A a \in (1..MaxBridges) \ {b} : bridges'[a] = bridges[a]
            /\ UNCHANGED <<roomVars, chans, authored, lock>>

\* C11: a bridge whose connect fails (the player is already connected, say) ends
\* with a rejection value and not with a crash: it starts no pump, calls no
\* disconnect, and the room, the channels and the other connections are as before
C11_FailedConnectRejected == [][C11_Step]_vars

\* ------------------------------------------------------------- C12
\* no two create requests were answered with the same code
C12_CodesDistinct ==
    \A r, q \in 1..MaxCreates :
        (r # q /\ creates[r].pc = "answered" /\ creates[q].pc = "answered")
            => creates[r].code # creates[q].code

\* the insert of a create request adds an entry and replaces none
C12_Step ==
    \A r \in 1..MaxCreates :
        handle_create_insert(r) =>
            /\ creates[r].code \notin DOMAIN rooms
            /\ \A c \in DOMAIN rooms : c \in DOMAIN rooms' /\ rooms'[c] = rooms[c]

\* C12: a create always answers with a code the registry did not hold, also when
\* creates run concurrently: no two of them get the same code, and the insert
\* never replaces a registered room
C12_CreateCodeFresh == []C12_CodesDistinct /\ [][C12_Step]_vars

\* ------------------------------------------------------------- C13
\* C13: the host is a key of players in the state create produces and in every
\* state after it, whatever joins, connects, disconnects and messages follow
C13_HostIsPlayer == host \in DOMAIN players

\* ------------------------------------------------------------- C14
C14_Step ==
    \A u \in Names, pw \in PasswordInputs :
        (handle_join(u, pw) /\ phase # NoPhase) =>
            /\ ret' = Result("join", "GameStarted", 0)
            /\ UNCHANGED <<roomVars, chans, authored, lock>>

\* C14: while the phase is set every join fails with GameStarted, for a member's
\* name as for a new one and for a right password as for a wrong one, and the
\* room is unchanged: the phase is tested before membership and password
C14_JoinAfterStartRejected == [][C14_Step]_vars

\* a join was refused with GameStarted by a room with a password and a connected host
C14_Witness ==
    /\ phase # NoPhase
    /\ ret = Result("join", "GameStarted", 0)
    /\ password # NoPassword
    /\ players[host].channel_handle # NoChan

\* ------------------------------------------------------------- C15
\* a join of a new username while the phase is unset
C15_Step ==
    \A u \in Names, pw \in PasswordInputs :
        (handle_join(u, pw) /\ phase = NoPhase /\ u \notin DOMAIN players) =>
            IF pw = password
            THEN /\ players' = players @@ (u :> Player_default)
                 /\ lock' = Free =>
                        /\ ret'.op = "join" /\ ret'.res = "Ok"
                        /\ \E t \in DOMAIN tokens' \ DOMAIN tokens : tokens'[t] = u
            ELSE /\ ret' = Result("join", "IncorrectPassword", 0)
                 /\ UNCHANGED <<roomVars, chans, authored, lock>>

\* after a refusal for the password the same username can join with the right one
C15_Retry ==
    (ret = Result("join", "IncorrectPassword", 0)) =>
        \A u \in Names \ DOMAIN players :
            ENABLED (handle_join(u, password) /\ u \in DOMAIN players')

\* C15: with the phase unset and a new username, join succeeds exactly when the
\* password supplied equals the stored one (absent equals absent, present differs
\* from absent); otherwise it fails with IncorrectPassword, inserts no player,
\* mints no token and sends no Join, and a later join with the right password
\* succeeds
C15_PasswordDecidesJoin == []C15_Retry /\ [][C15_Step]_vars

\* a password was supplied to a room that has none, and the join was refused
C15_Witness ==
    /\ password = NoPassword
    /\ ret = Result("join", "IncorrectPassword", 0)
    /\ \E u \in Names : u \notin DOMAIN players

\* ------------------------------------------------------------- C16
C16_Step ==
    \A u \in Joiners, pw \in PasswordInputs :
        (handle_join(u, pw) /\ JoinCheck(phase, players, password, u, pw) = "Ok") =>
            /\ players' = players @@ (u :> [points |-> 0, channel_handle |-> NoChan])
            /\ DOMAIN chans' = DOMAIN chans
            /\ \A c \in DOMAIN chans' : chans'[c].owner # u
            /\ BroadcastStep(Msg(authored + 1, "Join", u, ""))
            /\ lock' = Free =>
                   /\ ret' = Result("join", "Ok", SendAllDead(chans, players))
                   /\ \E t \in Tokens \ DOMAIN tokens : tokens' = tokens @@ (t :> u)

\* a player that never connected owns no channel
C16_NoChannelBeforeConnect ==
    \A c \in DOMAIN chans : chans[c].owner \in DOMAIN players

\* C16: a successful join inserts the player with zero points and an empty
\* connection slot, mints a token the table did not hold, and sends Join{username}
\* to the players connected at that moment; the joiner is not connected and gets
\* no event before it connects
C16_JoinEffects == []C16_NoChannelBeforeConnect /\ [][C16_Step]_vars

\* bob has joined while the host was connected: the host's channel holds the Join
C16_Witness ==
    /\ ret.op = "join" /\ ret.res = "Ok"
    /\ "bob" \in DOMAIN players /\ players["bob"].channel_handle = NoChan
    /\ \E t \in DOMAIN tokens : tokens[t] = "bob"
    /\ players[host].channel_handle # NoChan
    /\ \E i \in DOMAIN chans[players[host].channel_handle].buf :
          LET m == chans[players[host].channel_handle].buf[i] IN
          m.kind = "Join" /\ m.name = "bob"

\* ------------------------------------------------------------- C17
\* the bridges of a username that deliver: pumping, the send task draining a
\* channel whose receiver exists
C17_LivePaths(u) ==
    {b \in 1..MaxBridges :
        /\ bridges[b].name = u
        /\ bridges[b].pc = "pumping"
        /\ bridges[b].send = "run"
        /\ chans[bridges[b].chan].rx}

\* C17: a player's slot is set iff the player has exactly one live delivery
\* path: at most one bridge per username is pumping, and the slot is set exactly
\* while that bridge exists, from its successful connect until its channel stops
\* being drained
C17_SlotIffLivePath ==
    \A u \in DOMAIN players :
        /\ Cardinality(C17_LivePaths(u)) <= 1
        /\ players[u].channel_handle # NoChan <=>
               \E b \in C17_LivePaths(u) : bridges[b].chan = players[u].channel_handle

\* ------------------------------------------------------------- C18
C18_Step ==
    \A b \in 1..MaxBridges :
        receive_task_start(b) =>
            /\ IF bridges[b].name = host /\ phase = NoPhase
               THEN phase' \in Phases
               ELSE phase' = phase
            /\ UNCHANGED <<tokens, password, players, host>>

\* C18: Start is accepted only from the host while the phase is unset, and then
\* sets the phase to its initial value; Start from anybody else, or with the
\* phase set, changes nothing
C18_StartSetsPhase == [][C18_Step]_vars

\* ------------------------------------------------------------- C19
C19_Step ==
    \A b \in 1..MaxBridges, text \in Texts :
        receive_task_chat(b, text) =>
            /\ bridges[b].name = authenticate(tokens, bridges[b].tok)
            /\ BroadcastStep(Msg(authored + 1, "Chat", bridges[b].name, text))
            /\ (players[bridges[b].name].channel_handle = bridges[b].chan
                    /\ chans[bridges[b].chan].rx)
                 => bridges[b].chan \in Open(chans, Senders(players))
            /\ DOMAIN chans' = DOMAIN chans
            /\ UNCHANGED roomVars
            /\ lock' = Free => ret' = Result("chat", "Ok", SendAllDead(chans, players))

\* C19: a Chat{text} a connection sends in is broadcast as Chat{username, text}
\* with the connection's authenticated username and the text as sent, to every
\* connected player, the sender included; the room is otherwise unchanged
C19_ChatBroadcast == [][C19_Step]_vars

\* a chat of bob is in the channel of the host and in bob's own channel
C19_Witness ==
    /\ "bob" \in DOMAIN players
    /\ players["bob"].channel_handle # NoChan
    /\ players[host].channel_handle # NoChan
    /\ host # "bob"
    /\ \E m \in Range(chans[players["bob"].channel_handle].buf) :
          /\ m.kind = "Chat" /\ m.name = "bob" /\ m.text \in Texts
          /\ m \in Range(chans[players[host].channel_handle].buf)

\* ------------------------------------------------------------- C20
\* the frame that cannot be decoded ends the receive task of its connection and
\* nothing else: the room, the lock, the channels and the other connections are
\* as before
C20_PanicStep ==
    \A b \in 1..MaxBridges :
        receive_task_panics(b) =>
            /\ bridges'[b] = [bridges[b] EXCEPT !.recv = "panicked"]
            /\ \A a \in (1..MaxBridges) \ {b} : bridges'[a] = bridges[a]
            /\ UNCHANGED <<roomVars, chans, authored, lock, ret>>

\* the disconnect a bridge calls after its pumps: the slot is cleared and
\* Disconnect goes to the players still connected
C20_CleanupStep ==
    \A b \in 1..MaxBridges :
        websocket_disconnect(b) =>
            LET u == bridges[b].name IN
            /\ players[u].channel_handle = bridges[b].chan
            /\ players' = [players EXCEPT ![u].channel_handle = NoChan]
            /\ BroadcastTo(players', Msg(authored + 1, "Disconnect", u, ""))
            /\ \A a \in (1..MaxBridges) \ {b} : bridges'[a] = bridges[a]
            /\ lock' = Free => bridges'[b].pc = "closed"

C21_TableStep ==
    /\ \A t \in DOMAIN tokens : t \in DOMAIN tokens' /\ tokens'[t] = tokens[t]
    /\ Cardinality(DOMAIN tokens' \ DOMAIN tokens) <= 1
    /\ \A u \in Joiners, pw \in PasswordInputs :
          (handle_join(u, pw) /\ lock' = Free /\ ret'.res = "Ok") =>
              \E t \in Tokens \ DOMAIN tokens : tokens' = tokens @@ (t :> u)

\* the lookup of a token when a connection is opened: the bound username or a
\* refusal, and the room as before
C21_AuthenticateStep ==
    \A b \in 1..MaxBridges, tok \in Tokens :
        websocket_handler(b, tok) =>
            /\ UNCHANGED <<roomVars, chans, authored, lock>>
            /\ IF tok \in DOMAIN tokens
               THEN bridges'[b].name = tokens[tok] /\ ret' = Result("ws", "Ok", 0)
               ELSE bridges' = bridges /\ ret' = Result("ws", "InvalidToken", 0)

\* C21: the token table binds each token to one username, never rebinds or
\* removes an issued token, a minted token is new to the table, and
\* authenticate gives the bound username or a refusal without changing the room
C21_TokenTableStable == [][C21_TableStep /\ C21_AuthenticateStep]_vars

\* two tokens are issued, one is in use by a connection, and an unknown token
\* was just refused
C21_Witness ==
    /\ Cardinality(DOMAIN tokens) >= 2
    /\ ret = Result("ws", "InvalidToken", 0)
    /\ \E b \in 1..MaxBridges : bridges[b].pc = "pumping" /\ tokens[bridges[b].tok] = bridges[b].name

\* ------------------------------------------------------------- C22
\* the token a connection was opened with stays bound to its username,
\* whatever has become of the connection
C22_TokenSurvives ==
    \A b \in 1..MaxBridges :
        bridges[b].pc # "idle" =>
            bridges[b].tok \in DOMAIN tokens /\ tokens[bridges[b].tok] = bridges[b].name

\* the connect of a bridge for a member whose slot is empty, be it the member's
\* first connection or one after a disconnect: a new channel that starts with
\* the Welcome, the slot set to it, and Connect sent to every connected player
C22_ConnectStep ==
    \A b \in 1..MaxBridges :
        LET u == bridges[b].name
            c == Len(chans) + 1 IN
        (websocket_connect(b) /\ u \in DOMAIN players /\ players[u].channel_handle = NoChan) =>
            /\ Len(chans') = c
            /\ players' = [players EXCEPT ![u].channel_handle = c]
            /\ chans'[c].rx /\ chans'[c].owner = u
            /\ Head(chans'[c].buf) = Welcome(authored + 1, u, players', host, phase)
            /\ \A k \in Open(chans', Senders(players')) :
                  LET m == Msg(authored + 2, "Connect", u, "") IN
                  \/ chans'[k].buf[Len(chans'[k].buf)] = m
                  \/ k \in lock'.pending /\ lock'.msg = m
            /\ lock' = Free =>
                  /\ ret' = Result("connect", "Ok", SendAllDead(chans, players))
                  /\ bridges'[b].pc = "pumping" /\ bridges'[b].chan = c

C23_RegistryStep ==
    /\ \A c \in DOMAIN rooms : c \in DOMAIN rooms' /\ rooms'[c] = rooms[c]
    /\ \A c \in Codes :
          (registry_get(c) /\ c \notin DOMAIN rooms) => ret'.res = "RoomNotFound"

\* no step, a disconnect least of all, removes a player, a token or the host
C23_MembershipStep ==
    /\ DOMAIN players \subseteq DOMAIN players'
    /\ \A t \in DOMAIN tokens : t \in DOMAIN tokens' /\ tokens'[t] = tokens[t]
    /\ host' = host

\* C23: registry and membership only grow: a registered code resolves to the
\* same room for the rest of the run, an unregistered one gives RoomNotFound,
\* and disconnect removes no player, token, host or room, so a room whose
\* players are all disconnected stays addressable
C23_Additive == [][C23_RegistryStep /\ C23_MembershipStep]_vars

\* ------------------------------------------------------------- C24
\* C24: every room-level error reaches the caller of the boundary as a protocol
\* status: a join gets 409 for a started game and 400 for an existing username
\* or a wrong password; opening a connection gets 404 for an unknown room, 401
\* for a missing token and 403 for a token that does not authenticate
C24_ErrorsHaveStatus ==
    /\ ret.status # "panic"
    /\ ret.op = "join" =>
          /\ ret.res = "GameStarted" => ret.status = "CONFLICT"
          /\ ret.res \in {"PlayerExists", "IncorrectPassword"} => ret.status = "BAD_REQUEST"
    /\ ret.op = "get" /\ ret.res = "RoomNotFound" => ret.status = "NOT_FOUND"
    /\ ret.op = "ws" =>
          /\ ret.res = "MissingToken" => ret.status = "UNAUTHORIZED"
          /\ ret.res = "InvalidToken" => ret.status = "FORBIDDEN"

\* ------------------------------------------------------------- C25
\* C25: every username a room stores, the host's and each member's, is
\* unchanged by the normalization: a request whose username the normalization
\* would alter is rejected, and the name is stored neither as given nor rewritten
C25_StoredNamesNormal ==
    /\ validate(host) = "Ok"
    /\ \A u \in DOMAIN players : validate(u) = "Ok"
    /\ \A t \in DOMAIN tokens : validate(tokens[t]) = "Ok"

\* ------------------------------------------------------------- C26
\* while an operation of this room waits in send_all with the room locked, the
\* registry answers lookups, a create request takes its next step, and every
\* operation on a room made by a create request can run
C26_OthersReady ==
    lock # Free =>
        /\ \A c \in Codes : ENABLED registry_get(c)
        /\ \A r \in 1..CrossCreates :
              /\ creates[r].pc \in {"idle", "generating"} =>
                    \A c \in Codes : ENABLED handle_create_contains_key(r, c)
              /\ creates[r].pc = "generated" => ENABLED handle_create_insert(r)
              /\ Registered(r) =>
                    \A u \in Joiners :
                        /\ ENABLED other_join(r, u)
                        /\ ENABLED other_connect(r, u)
                        /\ ENABLED other_disconnect(r, u)
                        /\ u \in others[r].connected => ENABLED other_handle_message(r, u)

\* a step on one room leaves the other rooms as they are, both ways
C26_Step ==
    /\ others' # others => UNCHANGED <<roomVars, chans, authored, lock>>
    /\ (roomVars' # roomVars \/ chans' # chans \/ authored' # authored \/ lock' # lock)
          => others' = others

\* C26: operations on different rooms never contend on room state: while an
\* operation on one room is suspended holding that room's lock, join, connect,
\* disconnect and chat on another room, registry lookups and the creation of
\* rooms still complete, and no operation on a room changes the players, tokens
\* or channels of another
C26_RoomsIndependent == []C26_OthersReady /\ [][C26_Step]_vars

\* this room's broadcast waits on a full channel; the room a create request
\* made is registered and has a connected player
C26_Witness ==
    /\ lock # Free /\ lock.pending # {}
    /\ creates[1].pc = "answered" /\ Registered(1)
    /\ others[1].connected # {}

\* ============================================================= connect, as src/game.rs has it
\* Room::connect of src/game.rs: the channel is made by mpsc::channel(1).  The
\* Receiver is a local of connect until its last line returns it, so nothing
\* receives from the channel while connect runs.
Room_connect(who, name, br) ==
    /\ lock = Free
    /\ LET r == ConnectCheck(players, name) IN
       IF r # "Ok" THEN Fail(who, "connect", name, r, br)
       ELSE LET c  == Len(chans) + 1
                pl == [players EXCEPT ![name].channel_handle = c]
                w  == Welcome(authored + 1, name, pl, host, phase)
                ch == send_one(Append(chans, [NewChannel(name, w.id) EXCEPT !.cap = 1]), c, w)
            IN /\ players' = pl
               /\ UNCHANGED <<password, host, phase>>
               /\ send_all(who, "connect", name, pl, ch,
                           Msg(authored + 2, "Connect", name, ""),
                           IF who = Caller THEN br
                           ELSE [br EXCEPT ![who].chan = c])

\* the callers of ApiSpec on the Room of src/game.rs; a Receiver reaches its
\* caller when connect returns
game_connect(u) == Room_connect(Caller, u, bridges)

GameNext ==
    \/ \E u \in Joiners, pw \in PasswordInputs : handle_join(u, pw)
    \/ \E u \in Names : Len(chans) < MaxChans /\ game_connect(u)
    \/ \E u \in Names : api_disconnect(u)
    \/ \E u \in Names, text \in Texts : authored < ApiEvents /\ api_handle_message(u, text)

GameSpec == Init /\ [][GameNext]_vars

\* C27: connect on a disconnected member completes without a consumer of the
\* new channel: the Welcome and the member's own Connect both fit in the new
\* channel, so a connect that holds the room never waits for a permit of the
\* channel it has just made.
C27_ConnectFits ==
    lock.kind = "connect" => players[lock.name].channel_handle \notin lock.pending

\* a connection that is pumping or has left its select holds the slot of its
\* player: the slot names the channel its connect made
C28_SlotHeld ==
    \A b \in 1..MaxBridges :
        bridges[b].pc \in {"pumping", "selected"} =>
            /\ bridges[b].name \in DOMAIN players
            /\ players[bridges[b].name].channel_handle = bridges[b].chan
            /\ bridges[b].chan # NoChan

\* the disconnect of a bridge passes the checks of Room::disconnect, and the
\* bridge does not end by a panic of its unwrap
C28_Step ==
    \A b \in 1..MaxBridges :
        websocket_disconnect(b) =>
            /\ DisconnectCheck(players, bridges[b].name) = "Ok"
            /\ bridges'[b].pc \in {"closed", "disconnecting"}
            /\ ret'.op = "disconnect" => ret'.res = "Ok"

\* C28: the disconnect a bridge issues at the end of its lifecycle never fails,
\* whatever connection attempts, pump terminations and reconnects for the same
\* username interleave with it: it never returns PlayerDisconnected or
\* PlayerNotFound, and no bridge that called disconnect has panicked.
C28_BridgeDisconnectNeverFails ==
    /\ [](C28_SlotHeld
            /\ \A b \in 1..MaxBridges :
                  bridges[b].disconnects > 0 => bridges[b].pc # "panicked")
    /\ [][C28_Step]_vars

\* a connection was closed by its disconnect although a second attempt for the
\* same username was made, and refused, while its slot was set
C28_Witness ==
    \E a, b \in 1..MaxBridges :
        /\ a # b
        /\ bridges[a].name = bridges[b].name
        /\ bridges[a].pc = "closed" /\ bridges[a].disconnects = 1
        /\ bridges[b].pc = "panicked" /\ bridges[b].disconnects = 0

\* ============================================================= the room of src/api.rs
\* The revision of src/api.rs: one tokio broadcast channel for the room, a
\* Player is {points, is_connected}, the Room functions are synchronous.  In
\* the runs of this revision players holds its Player values, chans is the
\* sequence of the messages handed to channel_handle.send, authored their
\* count, and the lock is free between the statements of websocket().
RevEvents == 2      \* chats sent on the broadcast channel in a run

api_Player(c) == [points |-> 0, is_connected |-> c]

\* Room::send: the error of a channel without receivers is ignored
Room_send(log, kind, name, text) == Append(log, Msg(Len(log) + 1, kind, name, text))

\* bool::then(..).ok_or(err) is Some/Ok when the bool is true, and Err(err)
\* when it is false
handle_join_result(pl, name) ==
    IF name \notin DOMAIN pl THEN "PlayerNotFound"
    ELSE IF pl[name].is_connected THEN "Ok"
    ELSE "PlayerAlreadyConnected"

handle_leave_result(pl, name) ==
    IF name \notin DOMAIN pl THEN "PlayerNotFound"
    ELSE IF pl[name].is_connected THEN "Ok"
    ELSE "PlayerAlreadyDisconnected"

\* what websocket() of api.rs does with the value of its unwrap
Unwrap(br, who, op, res) ==
    IF who = Caller THEN br
    ELSE [br EXCEPT ![who].pc =
            IF res # "Ok" THEN "panicked"
            ELSE IF op = "handle_join" THEN "pumping" ELSE "closed"]

\* Room::handle_join and Room::handle_leave: the closure of either writes
\* false to is_connected
Room_handle(who, op, kind, res, name, br) ==
    /\ ret' = Result(op, res, 0)
    /\ bridges' = Unwrap(br, who, op, res)
    /\ IF res = "Ok"
       THEN /\ players' = [players EXCEPT ![name].is_connected = FALSE]
            /\ chans' = Room_send(chans, kind, name, "")
            /\ authored' = Len(chans')
       ELSE UNCHANGED <<players, chans, authored>>
    /\ UNCHANGED <<tokens, password, host, phase, lock, regVars>>

Room_handle_join(who, name, br) ==
    Room_handle(who, "handle_join", "Join", handle_join_result(players, name), name, br)

Room_handle_leave(who, name, br) ==
    Room_handle(who, "handle_leave", "Leave", handle_leave_result(players, name), name, br)

\* Room::handle_message: a Chat is sent under the name given
Room_handle_message(name, text) ==
    /\ chans' = Room_send(chans, "Chat", name, text)
    /\ authored' = Len(chans')
    /\ ret' = Result("chat", "Ok", 0)
    /\ UNCHANGED <<roomVars, lock, bridges, regVars>>

\* websocket(socket, room, name): subscribe, and the two tasks are spawned
websocket_subscribe(b, name) ==
    /\ bridges[b].pc = "idle"
    /\ \A a \in 1..(b - 1) : bridges[a].pc # "idle"
    /\ bridges' = [bridges EXCEPT ![b] = [@ EXCEPT !.pc = "subscribed", !.name = name]]
    /\ UNCHANGED <<roomVars, chans, authored, lock, ret, regVars>>

\* room.lock().await.handle_join(name.clone()).unwrap()
websocket_handle_join(b) ==
    /\ bridges[b].pc = "subscribed"
    /\ Room_handle_join(b, bridges[b].name, bridges)

\* the receive task of a connection hands a Chat to the room
websocket_chat(b, text) ==
    /\ bridges[b].pc \in {"subscribed", "pumping"}
    /\ Room_handle_message(bridges[b].name, text)

\* select!: one of the two tasks ended, the other is aborted
websocket_select(b) ==
    /\ bridges[b].pc = "pumping"
    /\ bridges' = [bridges EXCEPT ![b].pc = "selected"]
    /\ UNCHANGED <<roomVars, chans, authored, lock, ret, regVars>>

\* room.lock().await.handle_leave(name).unwrap()
websocket_handle_leave(b) ==
    /\ bridges[b].pc = "selected"
    /\ Room_handle_leave(b, bridges[b].name, bridges)

\* No code of api.rs makes a Room or a Player: the room is an input, with its
\* members in any state of is_connected
BroadcastInit ==
    /\ \E pl \in [Joiners -> {api_Player(TRUE), api_Player(FALSE)}] : players = pl
    /\ tokens = <<>> /\ password = NoPassword /\ host = "" /\ phase = NoPhase
    /\ ret = Result("none", "Ok", 0)
    /\ chans = <<>>
    /\ authored = 0
    /\ lock = Free
    /\ bridges = [b \in 1..MaxBridges |-> IdleBridge]
    /\ \E c \in RoomCodes : rooms = (c :> ThisRoom)
    /\ creates = [r \in 1..MaxCreates |-> IdleCreate]
    /\ \E h \in HostNames : others = [r \in 1..MaxCreates |-> other_create(h)]

BroadcastNext ==
    \/ \E u \in Names : Room_handle_join(Caller, u, bridges)
    \/ \E u \in Names : Room_handle_leave(Caller, u, bridges)
    \/ \E b \in 1..MaxBridges, u \in Names : websocket_subscribe(b, u)
    \/ \E b \in 1..MaxBridges : websocket_handle_join(b)
    \/ \E b \in 1..MaxBridges, text \in Texts :
          Cardinality({i \in DOMAIN chans : chans[i].kind = "Chat"}) < RevEvents
             /\ websocket_chat(b, text)
    \/ \E b \in 1..MaxBridges : websocket_select(b)
    \/ \E b \in 1..MaxBridges : websocket_handle_leave(b)

BroadcastSpec == BroadcastInit /\ [][BroadcastNext]_vars

\* a handle_join of name ends in this step, called directly or by a connection
C29_Joins(name) ==
    \/ Room_handle_join(Caller, name, bridges)
    \/ \E b \in 1..MaxBridges : bridges[b].name = name /\ websocket_handle_join(b)

C29_Leaves(name) ==
    \/ Room_handle_leave(Caller, name, bridges)
    \/ \E b \in 1..MaxBridges : bridges[b].name = name /\ websocket_handle_leave(b)

C29_JoinStep ==
    \A u \in DOMAIN players :
        C29_Joins(u) =>
            IF ~players[u].is_connected
            THEN /\ ret'.res = "Ok"
                 /\ players' = [players EXCEPT ![u].is_connected = TRUE]
                 /\ chans' = Room_send(chans, "Join", u, "")
            ELSE /\ ret'.res = "PlayerAlreadyConnected"
                 /\ UNCHANGED <<players, chans>>

C29_LeaveStep ==
    \A b \in 1..MaxBridges :
        websocket_handle_leave(b) =>
            LET u == bridges[b].name IN
            /\ ret'.res = "Ok"
            /\ bridges'[b].pc = "closed"
            /\ players' = [players EXCEPT ![u].is_connected = FALSE]
            /\ chans' = Room_send(chans, "Leave", u, "")

\* C29: in the revision of api.rs, handle_join(name) on a member that is not
\* connected succeeds, marks the member connected and broadcasts Join; on a
\* connected member it fails with PlayerAlreadyConnected; and the handle_leave
\* a connection issues after its handle_join succeeded, when its pumps have
\* stopped, succeeds, marks the member disconnected and broadcasts Leave.
C29_JoinThenLeave == [][C29_JoinStep /\ C29_LeaveStep]_vars

====
